---- MODULE Spec2Model ----
(***************************************************************************)
(* Model of snippets/algorithms/sorting-algorithms/sorting_algorithms.py.  *)
(*                                                                         *)
(* A list object is a sequence of elements.  An element is an integer key  *)
(* together with a tag standing for the identity of the Python object: the *)
(* sort functions compare and do arithmetic on the key only and move the   *)
(* object as a whole.  A fresh integer made by arithmetic (-x, the 0 of    *)
(* [0] * n) has tag 0.                                                     *)
(*                                                                         *)
(* Every sort function is an operator that runs the code of the function   *)
(* on the contents of its argument and yields the log of its list writes,  *)
(* in program order, each naming the list object written (obj "arr" is the *)
(* list the caller passed), the value it returns and whether it raised.    *)
(* The state machine replays the log one write per step against the        *)
(* caller's list and the function's private lists.                         *)
(***************************************************************************)
EXTENDS Integers, Sequences, FiniteSets, TLC

VARIABLES fn, num_buckets, pc, S, arr, local, exec, k, ret, round, prev,
          graph, hist, alg, start, trav,
          instance, lock, heap, thread

svars == <<fn, num_buckets, pc, S, arr, local, exec, k, ret, round, prev>>

gvars == <<graph, hist, alg, start, trav>>

tvars == <<instance, lock, heap, thread>>

vars == <<fn, num_buckets, pc, S, arr, local, exec, k, ret, round, prev,
          graph, hist, alg, start, trav, instance, lock, heap, thread>>

(* ---------------------------------------------------------------- bounds *)
MaxLen == 4
MaxBuckets == 2
MaxRounds == 2

Keys == {-10, -1, 0, 2, 11}

(* ------------------------------------------------------------- elements *)
Elem(key, tag) == [key |-> key, tag |-> tag]

Zero == Elem(0, 0)

Neg(x) == Elem(0 - x.key, 0)

Tagged(s) == [i \in 1..Len(s) |-> Elem(s[i], i)]

Vals(a) == [i \in 1..Len(a) |-> a[i].key]

Retag(a) == Tagged(Vals(a))

Abs(n) == IF n < 0 THEN 0 - n ELSE n

RECURSIVE MaxOf(_)
MaxOf(s) == IF Len(s) = 1 THEN s[1]
            ELSE LET m == MaxOf(Tail(s)) IN IF s[1] >= m THEN s[1] ELSE m

RECURSIVE MinOf(_)
MinOf(s) == IF Len(s) = 1 THEN s[1]
            ELSE LET m == MinOf(Tail(s)) IN IF s[1] <= m THEN s[1] ELSE m

(* 0-based item access, as in the code *)
Get(a, i) == a[i + 1]

Put(a, i, x) == [a EXCEPT ![i + 1] = x]

Swap(a, i, j) == [a EXCEPT ![i + 1] = a[j + 1], ![j + 1] = a[i + 1]]

(* a cursor is the list being worked on and the log of writes so far *)
Cur(a, log) == [a |-> a, log |-> log]

Write(c, obj, a2) ==
    [c EXCEPT !.a = a2, !.log = Append(c.log, [obj |-> obj, val |-> a2])]

Returned(log, r) == [log |-> log, ret |-> r, raised |-> FALSE]

Raised(log) == [log |-> log, ret |-> <<>>, raised |-> TRUE]

(* --------------------------------------------------------- bubble_sort *)
(* the cursor of bubble_sort also counts the comparisons and the swaps of *)
(* the pass under way and keeps a record of every pass that has ended    *)
RECURSIVE bubble_inner(_, _, _, _)
bubble_inner(c, j, hi, obj) ==
    IF j >= hi THEN c
    ELSE IF Get(c.a, j).key > Get(c.a, j + 1).key
         THEN bubble_inner([Write(c, obj, Swap(c.a, j, j + 1))
                               EXCEPT !.swapped = TRUE,
                                      !.compared = @ + 1,
                                      !.swaps = @ + 1],
                           j + 1, hi, obj)
         ELSE bubble_inner([c EXCEPT !.compared = @ + 1], j + 1, hi, obj)

bubble_pass(c, i, n, obj) ==
    LET c1 == bubble_inner([a |-> c.a, log |-> c.log, passes |-> c.passes,
                            swapped |-> FALSE, compared |-> 0, swaps |-> 0],
                           0, n - i - 1, obj)
    IN  [c1 EXCEPT !.passes = Append(@, [i |-> i, compared |-> c1.compared,
                                         swaps |-> c1.swaps, arr |-> c1.a])]

(* a bubble_sort without "if not swapped: break" *)
RECURSIVE bubble_outer_no_break(_, _, _, _)
bubble_outer_no_break(c, i, n, obj) ==
    IF i >= n THEN c
    ELSE bubble_outer_no_break(bubble_pass(c, i, n, obj), i + 1, n, obj)

RECURSIVE bubble_outer(_, _, _, _)
bubble_outer(c, i, n, obj) ==
    IF i >= n THEN c
    ELSE LET c1 == bubble_pass(c, i, n, obj)
         IN  IF ~c1.swapped THEN c1 ELSE bubble_outer(c1, i + 1, n, obj)

bubble_run(obj, a) ==
    bubble_outer([a |-> a, log |-> <<>>, passes |-> <<>>], 0, Len(a), obj)

bubble_sort(obj, a) ==
    LET c == bubble_run(obj, a)
    IN  Returned(c.log, c.a)

(* ------------------------------------------------------ selection_sort *)
RECURSIVE selection_inner(_, _, _, _)
selection_inner(a, min_idx, j, n) ==
    IF j >= n THEN min_idx
    ELSE IF Get(a, j).key < Get(a, min_idx).key
         THEN selection_inner(a, j, j + 1, n)
         ELSE selection_inner(a, min_idx, j + 1, n)

(* the minimum moved to the front by shifting the elements before it one *)
(* place right instead of by a swap                                       *)
RECURSIVE selection_outer_shift(_, _, _, _)
selection_outer_shift(c, i, n, obj) ==
    IF i >= n THEN c
    ELSE LET min_idx == selection_inner(c.a, i, i + 1, n)
             moved   == [p \in 1..Len(c.a) |->
                            IF p = i + 1 THEN c.a[min_idx + 1]
                            ELSE IF p > i + 1 /\ p <= min_idx + 1 THEN c.a[p - 1]
                            ELSE c.a[p]]
         IN  selection_outer_shift(Write(c, obj, moved), i + 1, n, obj)

RECURSIVE selection_outer(_, _, _, _)
selection_outer(c, i, n, obj) ==
    IF i >= n THEN c
    ELSE LET min_idx == selection_inner(c.a, i, i + 1, n)
         IN  selection_outer(Write(c, obj, Swap(c.a, i, min_idx)), i + 1, n, obj)

selection_sort(obj, a) ==
    LET c == selection_outer(Cur(a, <<>>), 0, Len(a), obj)
    IN  Returned(c.log, c.a)

(* ------------------------------------------------------ insertion_sort *)
RECURSIVE insertion_shift(_, _, _, _)
insertion_shift(c, j, key, obj) ==
    IF j >= 0 /\ Get(c.a, j).key > key.key
    THEN insertion_shift(Write(c, obj, Put(c.a, j + 1, Get(c.a, j))), j - 1, key, obj)
    ELSE Write(c, obj, Put(c.a, j + 1, key))

RECURSIVE insertion_outer(_, _, _, _)
insertion_outer(c, i, n, obj) ==
    IF i >= n THEN c
    ELSE insertion_outer(insertion_shift(c, i - 1, Get(c.a, i), obj), i + 1, n, obj)

insertion_sort(obj, a) ==
    LET c == insertion_outer(Cur(a, <<>>), 1, Len(a), obj)
    IN  Returned(c.log, c.a)

(* ---------------------------------------------------------- merge_sort *)
(* the merge with L[i] < R[j]: on a tie the right half goes first *)
RECURSIVE merge_loop_strict(_, _, _, _, _, _, _)
merge_loop_strict(c, L, R, i, j, kk, obj) ==
    IF i < Len(L) /\ j < Len(R)
    THEN IF Get(L, i).key < Get(R, j).key
         THEN merge_loop_strict(Write(c, obj, Put(c.a, kk, Get(L, i))), L, R, i + 1, j, kk + 1, obj)
         ELSE merge_loop_strict(Write(c, obj, Put(c.a, kk, Get(R, j))), L, R, i, j + 1, kk + 1, obj)
    ELSE IF i < Len(L)
         THEN merge_loop_strict(Write(c, obj, Put(c.a, kk, Get(L, i))), L, R, i + 1, j, kk + 1, obj)
         ELSE IF j < Len(R)
              THEN merge_loop_strict(Write(c, obj, Put(c.a, kk, Get(R, j))), L, R, i, j + 1, kk + 1, obj)
              ELSE c

RECURSIVE merge_loop(_, _, _, _, _, _, _)
merge_loop(c, L, R, i, j, kk, obj) ==
    IF i < Len(L) /\ j < Len(R)
    THEN IF Get(L, i).key <= Get(R, j).key
         THEN merge_loop(Write(c, obj, Put(c.a, kk, Get(L, i))), L, R, i + 1, j, kk + 1, obj)
         ELSE merge_loop(Write(c, obj, Put(c.a, kk, Get(R, j))), L, R, i, j + 1, kk + 1, obj)
    ELSE IF i < Len(L)
         THEN merge_loop(Write(c, obj, Put(c.a, kk, Get(L, i))), L, R, i + 1, j, kk + 1, obj)
         ELSE IF j < Len(R)
              THEN merge_loop(Write(c, obj, Put(c.a, kk, Get(R, j))), L, R, i, j + 1, kk + 1, obj)
              ELSE c

RECURSIVE merge_sort(_, _)
merge_sort(obj, a) ==
    IF Len(a) > 1
    THEN LET mid == Len(a) \div 2
             L0  == SubSeq(a, 1, mid)
             R0  == SubSeq(a, mid + 1, Len(a))
             sl  == merge_sort("L", L0)
             sr  == merge_sort("R", R0)
             log == <<[obj |-> "L", val |-> L0], [obj |-> "R", val |-> R0]>>
                    \o sl.log \o sr.log
             c   == merge_loop(Cur(a, log), sl.ret, sr.ret, 0, 0, 0, obj)
         IN  Returned(c.log, c.a)
    ELSE Returned(<<>>, a)

(* ---------------------------------------------------------- quick_sort *)
RECURSIVE partition_loop(_, _, _, _, _, _)
partition_loop(c, i, j, high, pivot, obj) ==
    IF j >= high THEN [c |-> c, i |-> i]
    ELSE IF Get(c.a, j).key <= pivot.key
         THEN partition_loop(Write(c, obj, Swap(c.a, i + 1, j)), i + 1, j + 1, high, pivot, obj)
         ELSE partition_loop(c, i, j + 1, high, pivot, obj)

partition(c, low, high, obj) ==
    LET p == partition_loop(c, low - 1, low, high, Get(c.a, high), obj)
    IN  [c |-> Write(p.c, obj, Swap(p.c.a, p.i + 1, high)), pi |-> p.i + 1]

RECURSIVE quick_sort_helper(_, _, _, _)
quick_sort_helper(c, low, high, obj) ==
    IF low < high
    THEN LET p  == partition(c, low, high, obj)
             c1 == quick_sort_helper(p.c, low, p.pi - 1, obj)
         IN  quick_sort_helper(c1, p.pi + 1, high, obj)
    ELSE c

quick_sort(obj, a) ==
    IF Len(a) <= 1 THEN Returned(<<>>, a)
    ELSE LET c0 == Write(Cur(a, <<>>), "arr_copy", a)
             c  == quick_sort_helper(c0, 0, Len(a) - 1, "arr_copy")
         IN  Returned(c.log, c.a)

(* ----------------------------------------------------------- heap_sort *)
(* heapify with the right child compared against the root, not against the *)
(* larger of root and left child                                            *)
RECURSIVE heapify_root_compare(_, _, _, _)
heapify_root_compare(c, n, i, obj) ==
    LET left     == 2 * i + 1
        right    == 2 * i + 2
        largest1 == IF left < n /\ Get(c.a, i).key < Get(c.a, left).key
                    THEN left ELSE i
        largest  == IF right < n /\ Get(c.a, i).key < Get(c.a, right).key
                    THEN right ELSE largest1
    IN  IF largest # i
        THEN heapify_root_compare(Write(c, obj, Swap(c.a, i, largest)), n, largest, obj)
        ELSE c

RECURSIVE heapify(_, _, _, _)
heapify(c, n, i, obj) ==
    LET left     == 2 * i + 1
        right    == 2 * i + 2
        largest1 == IF left < n /\ Get(c.a, i).key < Get(c.a, left).key
                    THEN left ELSE i
        largest  == IF right < n /\ Get(c.a, largest1).key < Get(c.a, right).key
                    THEN right ELSE largest1
    IN  IF largest # i
        THEN heapify(Write(c, obj, Swap(c.a, i, largest)), n, largest, obj)
        ELSE c

RECURSIVE heap_build(_, _, _, _)
heap_build(c, n, i, obj) ==
    IF i < 0 THEN c ELSE heap_build(heapify(c, n, i, obj), n, i - 1, obj)

RECURSIVE heap_extract(_, _, _)
heap_extract(c, i, obj) ==
    IF i <= 0 THEN c
    ELSE heap_extract(heapify(Write(c, obj, Swap(c.a, i, 0)), i, 0, obj), i - 1, obj)

(* heap_sort without the arr.copy(): the heap is built in the argument *)
heap_sort_no_copy(obj, a) ==
    LET c0 == Cur(a, <<>>)
        n  == Len(a)
        c1 == heap_build(c0, n, (n \div 2) - 1, obj)
        c2 == heap_extract(c1, n - 1, obj)
    IN  Returned(c2.log, c2.a)

heap_sort(obj, a) ==
    LET c0 == Write(Cur(a, <<>>), "arr_copy", a)
        n  == Len(a)
        c1 == heap_build(c0, n, (n \div 2) - 1, "arr_copy")
        c2 == heap_extract(c1, n - 1, "arr_copy")
    IN  Returned(c2.log, c2.a)

(* ------------------------------------------------------- counting_sort *)
RECURSIVE counting_count(_, _, _, _)
counting_count(count, a, i, min_val) ==
    IF i >= Len(a) THEN count
    ELSE counting_count([count EXCEPT ![Get(a, i).key - min_val] = @ + 1],
                        a, i + 1, min_val)

RECURSIVE counting_prefix(_, _, _)
counting_prefix(count, i, n) ==
    IF i >= n THEN count
    ELSE counting_prefix([count EXCEPT ![i] = @ + count[i - 1]], i + 1, n)

RECURSIVE counting_build(_, _, _, _, _)
counting_build(c, count, a, i, min_val) ==
    IF i < 0 THEN c
    ELSE LET x == Get(a, i)
             d == x.key - min_val
         IN  counting_build(Write(c, "output", Put(c.a, count[d] - 1, x)),
                            [count EXCEPT ![d] = @ - 1], a, i - 1, min_val)

counting_sort(obj, a) ==
    IF Len(a) = 0 THEN Returned(<<>>, <<>>)
    ELSE LET max_val == MaxOf(Vals(a))
             min_val == MinOf(Vals(a))
             range_of_elements == max_val - min_val + 1
             count0 == [i \in 0..(range_of_elements - 1) |-> 0]
             count1 == counting_count(count0, a, 0, min_val)
             count2 == counting_prefix(count1, 1, range_of_elements)
             c0 == Write(Cur(a, <<>>), "output", [i \in 1..Len(a) |-> Zero])
             c  == counting_build(c0, count2, a, Len(a) - 1, min_val)
         IN  Returned(c.log, c.a)

(* ---------------------------------------------------------- radix_sort *)
(* neg.reverse() left out *)
ReverseMissing(s) == s

(* the negation back counted as a reversal too, so that the two cancel *)
ReverseCancelled(s) == [i \in 1..Len(s) |-> s[Len(s) + 1 - (Len(s) + 1 - i)]]

Reverse(s) == [i \in 1..Len(s) |-> s[Len(s) + 1 - i]]

RECURSIVE radix_digits(_)
radix_digits(max_num) ==
    IF max_num > 0 THEN 1 + radix_digits(max_num \div 10) ELSE 0

RECURSIVE radix_count(_, _, _, _)
radix_count(count, result, i, exp) ==
    IF i >= Len(result) THEN count
    ELSE radix_count([count EXCEPT ![(Get(result, i).key \div exp) % 10] = @ + 1],
                     result, i + 1, exp)

RECURSIVE radix_build(_, _, _, _, _)
radix_build(c, count, result, i, exp) ==
    IF i < 0 THEN c
    ELSE LET x     == Get(result, i)
             index == (x.key \div exp) % 10
         IN  radix_build(Write(c, "output", Put(c.a, count[index] - 1, x)),
                         [count EXCEPT ![index] = @ - 1], result, i - 1, exp)

RECURSIVE radix_passes(_, _, _)
radix_passes(c, n, exp) ==
    IF n <= 0 THEN c
    ELSE LET c0     == Write(c, "output", [i \in 1..Len(c.a) |-> Zero])
             count1 == radix_count([i \in 0..9 |-> 0], c.a, 0, exp)
             count2 == counting_prefix(count1, 1, 10)
             c1     == radix_build(c0, count2, c.a, Len(c.a) - 1, exp)
         IN  radix_passes(Write(c1, "result", c1.a), n - 1, exp * 10)

RECURSIVE radix_sort(_, _)
radix_sort(obj, a) ==
    IF Len(a) = 0 THEN Returned(<<>>, <<>>)
    ELSE LET IsNeg(x)    == x.key < 0
             IsPos(x)    == x.key >= 0
             max_num     == MaxOf([i \in 1..Len(a) |-> Abs(a[i].key)])
             has_negative == \E i \in 1..Len(a) : a[i].key < 0
         IN  IF has_negative
             THEN LET neg0 == SelectSeq(a, IsNeg)
                      pos0 == SelectSeq(a, IsPos)
                      neg1 == [i \in 1..Len(neg0) |-> Neg(neg0[i])]
                      sn   == radix_sort("neg", neg1)
                      neg2 == [i \in 1..Len(sn.ret) |-> Neg(sn.ret[i])]
                      neg3 == Reverse(neg2)
                      sp   == IF Len(pos0) > 0 THEN radix_sort("pos", pos0)
                              ELSE Returned(<<>>, <<>>)
                      log  == <<[obj |-> "neg", val |-> neg0], [obj |-> "pos", val |-> pos0],
                                [obj |-> "neg", val |-> neg1]>>
                              \o sn.log
                              \o <<[obj |-> "neg", val |-> sn.ret], [obj |-> "neg", val |-> neg2],
                                   [obj |-> "neg", val |-> neg3]>>
                              \o sp.log
                              \o <<[obj |-> "pos", val |-> sp.ret]>>
                  IN  Returned(log, neg3 \o sp.ret)
             ELSE LET c0 == Write(Cur(a, <<>>), "result", a)
                      c  == radix_passes(c0, radix_digits(max_num), 1)
                  IN  Returned(c.log, c.a)

(* --------------------------------------------------------- bucket_sort *)
(* Python floats are IEEE-754 doubles (53-bit significand, round to nearest *)
(* even).  FloatIndex(m, d, nb) is int(m / (d / nb)) for integers           *)
(* 0 <= m <= d, d > 0, nb > 0, computed with integers only.                 *)
(*   bucket_range = fl(d / nb) = (d * 2^e + delta) / (nb * 2^e) with        *)
(*   e = 52 - s, 2^s <= d/nb < 2^(s+1), and delta the rounding error of the *)
(*   significand scaled by nb: delta = nb - rem when rounded up, -rem when  *)
(*   rounded down, rem = (d * 2^e) mod nb.                                  *)
(*   When m * nb / d is not an integer the quotient is at least 1/d away    *)
(*   from an integer and truncation gives the exact floor.  When it is an   *)
(*   integer n the exact quotient is n - n*delta/(d*2^e + delta): for       *)
(*   delta <= 0 it truncates to n; for delta > 0 it rounds back to n iff it *)
(*   is within half a unit in the last place below n, else truncates to n-1.*)
RECURSIVE Pow2(_)
Pow2(n) == IF n <= 0 THEN 1 ELSE 2 * Pow2(n - 1)

RECURSIVE Pow2Mod(_, _)
Pow2Mod(e, m) ==
    IF e <= 0 THEN 1 % m
    ELSE IF e % 2 = 0
         THEN LET h == Pow2Mod(e \div 2, m) IN (h * h) % m
         ELSE (2 * Pow2Mod(e - 1, m)) % m

RECURSIVE FloorLog2(_, _)
FloorLog2(a, b) ==
    IF a >= 2 * b THEN FloorLog2(a, 2 * b) + 1
    ELSE IF a < b THEN FloorLog2(2 * a, b) - 1
    ELSE 0

(* round(m / (d / nb)) in place of int(m / (d / nb)) *)
FloatIndexRounded(m, d, nb) == (2 * m * nb + d) \div (2 * d)

FloatIndex(m, d, nb) ==
    LET n == (m * nb) \div d
    IN  IF m = 0 \/ (m * nb) % d # 0 THEN n
        ELSE LET s     == FloorLog2(d, nb)
                 rem   == (d * Pow2Mod(52 - s, nb)) % nb
                 delta == nb - rem
                 p     == FloorLog2(n, 1)
                 sh    == (IF n = Pow2(p) THEN 2 ELSE 1) + s - p
             IN  IF 2 * rem <= nb THEN n
                 ELSE IF n * delta * Pow2(sh) <= d * Pow2(0 - sh) THEN n ELSE n - 1

(* the index without the special case for the maximum *)
bucket_index_no_clamp(x, min_val, max_val, nb) ==
    FloatIndex(x.key - min_val, max_val - min_val, nb)

bucket_index(x, min_val, max_val, nb) ==
    LET index == FloatIndex(x.key - min_val, max_val - min_val, nb)
    IN  IF index = nb THEN index - 1 ELSE index

RECURSIVE bucket_place(_, _, _, _, _, _)
bucket_place(st, a, i, min_val, max_val, nb) ==
    IF i > Len(a) \/ st.raised THEN st
    ELSE IF max_val = min_val
         THEN [st EXCEPT !.raised = TRUE]
         ELSE LET index == bucket_index(a[i], min_val, max_val, nb)
              IN  IF index \notin 0..(nb - 1)
                  THEN [st EXCEPT !.raised = TRUE]
                  ELSE LET b == Append(st.buckets[index], a[i])
                       IN  bucket_place([st EXCEPT !.buckets[index] = b,
                                            !.log = Append(@, [obj |-> "bucket", val |-> b])],
                                        a, i + 1, min_val, max_val, nb)

RECURSIVE bucket_merge(_, _, _, _)
bucket_merge(c, buckets, b, nb) ==
    IF b >= nb THEN c
    ELSE LET s == insertion_sort("bucket", buckets[b])
         IN  bucket_merge([a |-> c.a \o s.ret,
                           log |-> c.log \o s.log
                                   \o <<[obj |-> "result", val |-> c.a \o s.ret]>>],
                          buckets, b + 1, nb)

bucket_sort(obj, a, nb) ==
    IF Len(a) = 0 THEN Returned(<<>>, <<>>)
    ELSE LET min_val == MinOf(Vals(a))
             max_val == MaxOf(Vals(a))
             st == bucket_place([buckets |-> [b \in 0..(nb - 1) |-> <<>>],
                                 log |-> <<>>, raised |-> FALSE],
                                a, 1, min_val, max_val, nb)
         IN  IF st.raised THEN Raised(st.log)
             ELSE LET c == bucket_merge(Cur(<<>>, st.log), st.buckets, 0, nb)
                  IN  Returned(c.log, c.a)

(* ---------------------------------------------------------- shell_sort *)
RECURSIVE shell_shift(_, _, _, _)
shell_shift(c, j, gap, temp) ==
    IF j >= gap /\ Get(c.a, j - gap).key > temp.key
    THEN shell_shift(Write(c, "arr_copy", Put(c.a, j, Get(c.a, j - gap))), j - gap, gap, temp)
    ELSE Write(c, "arr_copy", Put(c.a, j, temp))

RECURSIVE shell_inner(_, _, _, _)
shell_inner(c, i, n, gap) ==
    IF i >= n THEN c
    ELSE shell_inner(shell_shift(c, i, gap, Get(c.a, i)), i + 1, n, gap)

RECURSIVE shell_gaps(_, _, _)
shell_gaps(c, gap, n) ==
    IF gap > 0 THEN shell_gaps(shell_inner(c, gap, n, gap), gap \div 2, n) ELSE c

shell_sort(obj, a) ==
    LET n  == Len(a)
        c0 == Write(Cur(a, <<>>), "arr_copy", a)
        c  == shell_gaps(c0, n \div 2, n)
    IN  Returned(c.log, c.a)

(* ------------------------------------------------------- state machine *)
(* fn          the sort function the caller calls ("none" before the call)  *)
(* num_buckets the second argument of bucket_sort                           *)
(* pc          idle -> running -> returned | raised                         *)
(* S           contents of the caller's list when the call was made         *)
(* arr         contents of the caller's list now                            *)
(* local       contents of the function's private lists, by name            *)
(* exec        the execution of the call: its list writes in program order, *)
(*             the value it returns, whether it raises                      *)
(* k           number of list writes of the running call done so far        *)
(* ret         the value returned                                           *)
(* round       1 for f(S), 2 for f(f(S)), ...                               *)
(* prev        the integers returned by the previous round                  *)
num_buckets_default == 10

(* no Graph object exists while the sort functions are exercised *)
NoTraversal ==
    [pc |-> "NotStarted", visited |-> {}, queue |-> <<>>, stack |-> <<>>,
     frames |-> <<>>, result |-> <<>>, ret |-> <<>>]

GraphParked ==
    /\ graph = <<>>
    /\ hist = <<>>
    /\ alg = "none"
    /\ start = 0
    /\ trav = NoTraversal

(* ThreadSafeSingleton before any thread has called it: _instance = None, *)
(* the class lock free, no object allocated                               *)
None == 0

SingletonParked ==
    /\ instance = None
    /\ lock = None
    /\ heap = <<>>
    /\ thread = <<>>

Examples == {<<-5, 3, -1, 0, 2>>, <<7, 7, 7>>}

Inputs == {Tagged(s) : s \in (UNION {[1..n -> Keys] : n \in 0..MaxLen}) \cup Examples}

BucketCounts == (1..MaxBuckets) \cup {num_buckets_default}

Private == {"arr_copy", "output", "result", "L", "R", "neg", "pos", "bucket"}

NoLocals == [o \in Private |-> <<>>]

Run(f, a, nb) ==
    CASE f = "bubble_sort"    -> bubble_sort("arr", a)
      [] f = "selection_sort" -> selection_sort("arr", a)
      [] f = "insertion_sort" -> insertion_sort("arr", a)
      [] f = "merge_sort"     -> merge_sort("arr", a)
      [] f = "quick_sort"     -> quick_sort("arr", a)
      [] f = "heap_sort"      -> heap_sort("arr", a)
      [] f = "counting_sort"  -> counting_sort("arr", a)
      [] f = "radix_sort"     -> radix_sort("arr", a)
      [] f = "bucket_sort"    -> bucket_sort("arr", a, nb)
      [] f = "shell_sort"     -> shell_sort("arr", a)

Init ==
    /\ fn = "none"
    /\ num_buckets = num_buckets_default
    /\ pc = "idle"
    /\ S \in Inputs
    /\ arr = S
    /\ local = NoLocals
    /\ exec = Returned(<<>>, <<>>)
    /\ k = 0
    /\ ret = <<>>
    /\ round = 1
    /\ prev = <<>>
    /\ GraphParked
    /\ SingletonParked

Call(f, nb) ==
    /\ fn' = f
    /\ num_buckets' = nb
    /\ pc' = "running"
    /\ exec' = Run(f, S, nb)
    /\ UNCHANGED <<S, arr, local, k, ret, round, prev>>
    /\ UNCHANGED gvars
    /\ UNCHANGED tvars

CallBubbleSort ==
    /\ pc = "idle"
    /\ Call("bubble_sort", num_buckets_default)

CallSelectionSort ==
    /\ pc = "idle"
    /\ Call("selection_sort", num_buckets_default)

CallInsertionSort ==
    /\ pc = "idle"
    /\ Call("insertion_sort", num_buckets_default)

CallMergeSort ==
    /\ pc = "idle"
    /\ Call("merge_sort", num_buckets_default)

CallQuickSort ==
    /\ pc = "idle"
    /\ Call("quick_sort", num_buckets_default)

CallHeapSort ==
    /\ pc = "idle"
    /\ Call("heap_sort", num_buckets_default)

CallCountingSort ==
    /\ pc = "idle"
    /\ Call("counting_sort", num_buckets_default)

CallRadixSort ==
    /\ pc = "idle"
    /\ Call("radix_sort", num_buckets_default)

CallBucketSort ==
    /\ pc = "idle"
    /\ \E nb \in BucketCounts : Call("bucket_sort", nb)

CallShellSort ==
    /\ pc = "idle"
    /\ Call("shell_sort", num_buckets_default)

(* one list write of the running call *)
Step ==
    /\ pc = "running"
    /\ k < Len(exec.log)
    /\ LET w == exec.log[k + 1]
       IN  IF w.obj = "arr"
           THEN arr' = w.val /\ UNCHANGED local
           ELSE local' = [local EXCEPT ![w.obj] = w.val] /\ UNCHANGED arr
    /\ k' = k + 1
    /\ UNCHANGED <<fn, num_buckets, pc, S, exec, ret, round, prev>>
    /\ UNCHANGED gvars
    /\ UNCHANGED tvars

Return ==
    /\ pc = "running"
    /\ k = Len(exec.log)
    /\ ~exec.raised
    /\ ret' = exec.ret
    /\ pc' = "returned"
    /\ UNCHANGED <<fn, num_buckets, S, arr, local, exec, k, round, prev>>
    /\ UNCHANGED gvars
    /\ UNCHANGED tvars

Raise ==
    /\ pc = "running"
    /\ k = Len(exec.log)
    /\ exec.raised
    /\ pc' = "raised"
    /\ UNCHANGED <<fn, num_buckets, S, arr, local, exec, k, ret, round, prev>>
    /\ UNCHANGED gvars
    /\ UNCHANGED tvars

(* the caller passes the value returned to the same function again *)
CallAgain ==
    /\ pc = "returned"
    /\ round < MaxRounds
    /\ S' = Retag(ret)
    /\ arr' = Retag(ret)
    /\ prev' = Vals(ret)
    /\ local' = NoLocals
    /\ exec' = Run(fn, Retag(ret), num_buckets)
    /\ k' = 0
    /\ ret' = <<>>
    /\ round' = round + 1
    /\ pc' = "running"
    /\ UNCHANGED <<fn, num_buckets>>
    /\ UNCHANGED gvars
    /\ UNCHANGED tvars

Next ==
    \/ CallBubbleSort
    \/ CallSelectionSort
    \/ CallInsertionSort
    \/ CallMergeSort
    \/ CallQuickSort
    \/ CallHeapSort
    \/ CallCountingSort
    \/ CallRadixSort
    \/ CallBucketSort
    \/ CallShellSort
    \/ Step
    \/ Return
    \/ Raise
    \/ CallAgain

Spec == Init /\ [][Next]_vars

TypeOK ==
    /\ pc \in {"idle", "running", "returned", "raised"}
    /\ round \in 1..MaxRounds
    /\ Len(arr) = Len(S)

(* ------------------------------------------------------------ properties *)
IsSorted(a) == \A i \in 1..(Len(a) - 1) : a[i].key <= a[i + 1].key

Count(a, x) == Cardinality({i \in 1..Len(a) : a[i] = x})

IsPermutation(a, b) ==
    /\ Len(a) = Len(b)
    /\ \A i \in 1..Len(b) : Count(a, b[i]) = Count(b, b[i])

Pos(s, x) == CHOOSE p \in 1..Len(s) : s[p] = x

(* elements of equal key are in r in the order they have in s *)
StableWrt(s, r) ==
    \A i, j \in 1..Len(r) :
        (i < j /\ r[i].key = r[j].key) => Pos(s, r[i]) < Pos(s, r[j])

AllEqual(a) == \A i, j \in 1..Len(a) : a[i].key = a[j].key

HasNegative(a) == \E i \in 1..Len(a) : a[i].key < 0

HasDuplicate(a) == \E i, j \in 1..Len(a) : i < j /\ a[i].key = a[j].key

Finished == pc \in {"returned", "raised"}

ComparisonAndCountingSorts ==
    {"bubble_sort", "selection_sort", "insertion_sort", "merge_sort",
     "quick_sort", "heap_sort", "shell_sort", "counting_sort"}

StableSorts == {"insertion_sort", "merge_sort", "counting_sort"}

UnstableSorts == {"selection_sort", "quick_sort", "heap_sort"}

CopySorts ==
    {"quick_sort", "heap_sort", "shell_sort", "counting_sort", "radix_sort", "bucket_sort"}

(* C1: bubble, selection, insertion, merge, quick, heap, shell and counting *)
(* sort never raise and return a sequence in ascending order that is a      *)
(* permutation of the argument (the same elements, the same length).        *)
C1_SortedPermutation ==
    fn \in ComparisonAndCountingSorts =>
        /\ pc # "raised"
        /\ pc = "returned" => IsSorted(ret) /\ IsPermutation(ret, S)

C1_Witness ==
    /\ fn = "heap_sort"
    /\ pc = "returned"
    /\ Len(S) >= 3
    /\ HasNegative(S)
    /\ HasDuplicate(S)
    /\ ~IsSorted(S)
    /\ IsSorted(ret)

(* C2: radix_sort never raises and returns the ascending permutation of the *)
(* integers of its argument, negatives included; on [-5,3,-1,0,2] it        *)
(* returns [-5,-1,0,2,3].                                                    *)
C2_RadixSorted ==
    fn = "radix_sort" =>
        /\ pc # "raised"
        /\ pc = "returned" => IsSorted(ret) /\ IsPermutation(Vals(ret), Vals(S))
        /\ (pc = "returned" /\ Vals(S) = <<-5, 3, -1, 0, 2>>)
               => Vals(ret) = <<-5, -1, 0, 2, 3>>

C2_Witness ==
    /\ fn = "radix_sort"
    /\ pc = "returned"
    /\ round = 1
    /\ Vals(S) = <<-5, 3, -1, 0, 2>>
    /\ Vals(ret) = <<-5, -1, 0, 2, 3>>

(* C3: on a non-empty argument with max > min and any bucket count >= 1,    *)
(* bucket_sort never raises and returns the ascending permutation of the    *)
(* argument.                                                                 *)
C3_BucketSorted ==
    (fn = "bucket_sort" /\ Len(S) > 0 /\ ~AllEqual(S)) =>
        /\ pc # "raised"
        /\ pc = "returned" => IsSorted(ret) /\ IsPermutation(ret, S)

C3_Witness ==
    /\ fn = "bucket_sort"
    /\ pc = "returned"
    /\ num_buckets = 2
    /\ Len(S) >= 3
    /\ ~AllEqual(S)
    /\ ~IsSorted(S)
    /\ IsSorted(ret)

(* C4: on a non-empty argument whose elements are all equal, bucket_sort    *)
(* returns a sequence equal to the argument and does not raise.             *)
C4_AllEqualReturned ==
    (fn = "bucket_sort" /\ Len(S) > 0 /\ AllEqual(S) /\ Finished) =>
        pc = "returned" /\ Vals(ret) = Vals(S)

(* C5: each of the ten sort functions returns [] on [] and [x] on [x] and   *)
(* raises on neither.                                                        *)
C5_EmptyAndSingle ==
    (fn # "none" /\ Len(S) <= 1 /\ Finished) =>
        pc = "returned" /\ Vals(ret) = Vals(S)

(* C6: for each of the ten sort functions f and every S, f(S) is a sequence *)
(* and f(f(S)) is the same sequence.                                        *)
C6_Idempotent ==
    /\ pc # "raised"
    /\ (round >= 2 /\ pc = "returned") => Vals(ret) = prev

(* C7: insertion_sort, merge_sort and counting_sort are stable: elements of *)
(* equal key are returned in the order they have in the argument.           *)
C7_Stable ==
    (fn \in StableSorts /\ pc = "returned") => StableWrt(S, ret)

C7_Witness ==
    /\ fn = "merge_sort"
    /\ pc = "returned"
    /\ Len(S) >= 3
    /\ HasDuplicate(S)
    /\ ~IsSorted(S)
    /\ StableWrt(S, ret)

(* C8: selection_sort, quick_sort and heap_sort are not stable: each has an *)
(* argument with two elements of equal key that it returns in the opposite  *)
(* order.                                                                    *)
StabilityProbes == {Tagged(s) : s \in [1..3 -> {1, 2}]}

C8_NotStable ==
    /\ pc = "idle" =>
           \A f \in UnstableSorts :
               \E s \in StabilityProbes : ~StableWrt(s, Run(f, s, num_buckets).ret)
    /\ (fn \in UnstableSorts /\ pc = "returned" /\ Vals(S) = <<2, 2, -1>>)
           => ~StableWrt(S, ret)

C8_Witness ==
    /\ fn = "selection_sort"
    /\ pc = "returned"
    /\ Vals(S) = <<2, 2, -1>>
    /\ IsPermutation(ret, S)
    /\ ~StableWrt(S, ret)

(* C9: after a call of any of the ten sort functions returns, the caller's  *)
(* list holds the same elements in the same order as before the call.       *)
C9_CallerUnchanged == pc = "returned" => arr = S

(* C10: during and after a call of quick_sort, heap_sort, shell_sort,       *)
(* counting_sort, radix_sort or bucket_sort the caller's list is as it was  *)
(* when the call was made.                                                   *)
C10_CopySortsKeepInput == fn \in CopySorts => arr = S

C10_Witness ==
    /\ fn = "heap_sort"
    /\ pc = "running"
    /\ k > 1
    /\ local["arr_copy"] # S
    /\ arr = S

(***************************************************************************)
(* Model of snippets/algorithms/graph-traversal/graph_traversal.py.        *)
(*                                                                         *)
(* self.graph is a function from the vertices present to their adjacency   *)
(* lists.  Vertex identifiers are integers in their numeric order; the     *)
(* sample graph's 'A'..'F' are 1..6.  A traversal is a record: pc          *)
(* (NotStarted, Visiting, Done, Raised), the visited set, the queue (bfs), *)
(* the stack (dfs_iterative, top at the end), the active dfs_helper calls  *)
(* (dfs_recursive, innermost first, each with the neighbours its for loop   *)
(* has still to look at), the result list and the value returned.          *)
(* One step of bfs and of dfs_iterative is one iteration of the while loop *)
(* with the loop test that follows it; one step of dfs_recursive runs up   *)
(* to the next entry of dfs_helper or to the return of the outermost call. *)
(***************************************************************************)
MaxOps == 3

Vertices == {1, 2, 3}

edges == <<<<1, 2>>, <<1, 3>>, <<2, 4>>, <<2, 5>>, <<3, 6>>, <<5, 6>>>>

Has(g, v) == v \in DOMAIN g

(* ---------------------------------------------------------------- Graph *)
add_vertex_reset(g, vertex) == (vertex :> <<>>) @@ g

add_vertex(g, vertex) ==
    IF ~Has(g, vertex) THEN (vertex :> <<>>) @@ g ELSE g

(* an add_edge that keeps adjacency lists free of repeats *)
add_edge_unique(g, v1, v2) ==
    LET g1 == add_vertex(add_vertex(g, v1), v2)
        In(x, s) == \E i \in 1..Len(s) : s[i] = x
        g3 == IF In(v2, g1[v1]) THEN g1 ELSE [g1 EXCEPT ![v1] = Append(@, v2)]
    IN  IF In(v1, g3[v2]) THEN g3 ELSE [g3 EXCEPT ![v2] = Append(@, v1)]

(* an add_edge for a directed graph *)
add_edge_directed(g, v1, v2) ==
    LET g1 == add_vertex(add_vertex(g, v1), v2)
    IN  [g1 EXCEPT ![v1] = Append(@, v2)]

add_edge(g, v1, v2) ==
    LET g1 == IF ~Has(g, v1) THEN add_vertex(g, v1) ELSE g
        g2 == IF ~Has(g1, v2) THEN add_vertex(g1, v2) ELSE g1
        g3 == [g2 EXCEPT ![v1] = Append(@, v2)]
    IN  [g3 EXCEPT ![v2] = Append(@, v1)]

RECURSIVE add_edges(_, _)
add_edges(g, es) ==
    IF es = <<>> THEN g
    ELSE add_edges(add_edge(g, es[1][1], es[1][2]), Tail(es))

create_sample_graph == add_edges(<<>>, edges)

(* sorted(list): a new list in ascending order *)
(* the list in the order the graph holds it *)
insertion_order(s) == s

(* position i holds the value with fewer than i smaller entries in the    *)
(* list and at least i entries that are not larger                       *)
sorted(s) ==
    [i \in 1..Len(s) |->
        CHOOSE x \in {s[j] : j \in 1..Len(s)} :
            /\ Cardinality({j \in 1..Len(s) : s[j] < x}) < i
            /\ i <= Cardinality({j \in 1..Len(s) : s[j] <= x})]

(* sorted(list, reverse=True) *)
sorted_reverse(s) ==
    [i \in 1..Len(s) |->
        CHOOSE x \in {s[j] : j \in 1..Len(s)} :
            /\ Cardinality({j \in 1..Len(s) : s[j] > x}) < i
            /\ i <= Cardinality({j \in 1..Len(s) : s[j] >= x})]

(* sorted(self.graph[vertex]) reads the adjacency list and leaves it as it is *)
(* self.graph[vertex].sort() would order the list held by the graph *)
sorted_neighbors_in_place(g, vertex) ==
    [list |-> sorted(g[vertex]), g |-> [g EXCEPT ![vertex] = sorted(@)]]

sorted_neighbors(g, vertex) == [list |-> sorted(g[vertex]), g |-> g]

sorted_neighbors_ascending(g, vertex) == [list |-> sorted(g[vertex]), g |-> g]

sorted_neighbors_reverse(g, vertex) == [list |-> sorted_reverse(g[vertex]), g |-> g]

(* ------------------------------------------------------------ traversals *)
ReturnEmpty == [NoTraversal EXCEPT !.pc = "Done", !.ret = <<>>]

KeyError(t) == [t EXCEPT !.pc = "Raised"]

(* while <frontier>: ... return result *)
loop_test(t, frontier) ==
    IF frontier = <<>> THEN [t EXCEPT !.pc = "Done", !.ret = t.result] ELSE t

bfs_call_unguarded(g, s) ==
    [NoTraversal EXCEPT !.pc = "Visiting", !.visited = {s}, !.queue = <<s>>]

bfs_call(g, s) ==
    IF ~Has(g, s) THEN ReturnEmpty
    ELSE [NoTraversal EXCEPT !.pc = "Visiting", !.visited = {s}, !.queue = <<s>>]

(* a bfs that would mark a vertex when it is dequeued, not when it is enqueued *)
RECURSIVE bfs_neighbors_unmarked(_, _)
bfs_neighbors_unmarked(t, nbrs) ==
    IF nbrs = <<>> THEN t
    ELSE IF nbrs[1] \notin t.visited
         THEN bfs_neighbors_unmarked([t EXCEPT !.queue = Append(@, nbrs[1])], Tail(nbrs))
         ELSE bfs_neighbors_unmarked(t, Tail(nbrs))

RECURSIVE bfs_neighbors(_, _)
bfs_neighbors(t, nbrs) ==
    IF nbrs = <<>> THEN t
    ELSE IF nbrs[1] \notin t.visited
         THEN bfs_neighbors([t EXCEPT !.visited = @ \cup {nbrs[1]},
                                      !.queue = Append(@, nbrs[1])], Tail(nbrs))
         ELSE bfs_neighbors(t, Tail(nbrs))

(* queue.pop() in place of queue.popleft() *)
bfs_step_pop_right(g, t) ==
    LET vertex == t.queue[Len(t.queue)]
        t1     == [t EXCEPT !.queue = SubSeq(@, 1, Len(@) - 1),
                            !.result = Append(@, vertex)]
        r      == sorted_neighbors(g, vertex)
        t2     == bfs_neighbors(t1, r.list)
    IN  [t |-> loop_test(t2, t2.queue), g |-> r.g]

bfs_step(g, t) ==
    LET vertex == Head(t.queue)
        t1     == [t EXCEPT !.queue = Tail(@), !.result = Append(@, vertex)]
    IN  IF ~Has(g, vertex) THEN [t |-> KeyError(t1), g |-> g]
        ELSE LET r  == sorted_neighbors(g, vertex)
                 t2 == bfs_neighbors(t1, r.list)
             IN  [t |-> loop_test(t2, t2.queue), g |-> r.g]

dfs_recursive_call_frame(t, vertex, nbrs) ==
    [t EXCEPT !.visited = @ \cup {vertex},
              !.result = Append(@, vertex),
              !.frames = <<[vertex |-> vertex, todo |-> nbrs]>> \o @]

dfs_helper(g, t, vertex) ==
    IF ~Has(g, vertex)
    THEN [t |-> KeyError([t EXCEPT !.visited = @ \cup {vertex},
                                   !.result = Append(@, vertex)]), g |-> g]
    ELSE LET r == sorted_neighbors(g, vertex)
         IN  [t |-> dfs_recursive_call_frame(t, vertex, r.list), g |-> r.g]

dfs_recursive_call(g, s) ==
    IF ~Has(g, s) THEN ReturnEmpty
    ELSE dfs_helper(g, [NoTraversal EXCEPT !.pc = "Visiting"], s).t

(* a helper that recurses into every neighbour, visited or not *)
RECURSIVE dfs_recursive_step_revisit(_, _)
dfs_recursive_step_revisit(g, t) ==
    IF t.frames = <<>> THEN [t |-> loop_test(t, <<>>), g |-> g]
    ELSE LET top == t.frames[1]
         IN  IF top.todo = <<>>
             THEN dfs_recursive_step_revisit(g, [t EXCEPT !.frames = Tail(@)])
             ELSE dfs_helper(g, [t EXCEPT !.frames[1].todo = Tail(@)], top.todo[1])

(* a helper that returns as soon as one of its calls has returned *)
RECURSIVE dfs_recursive_step_return_first(_, _)
dfs_recursive_step_return_first(g, t) ==
    IF t.frames = <<>> THEN [t |-> loop_test(t, <<>>), g |-> g]
    ELSE LET top == t.frames[1]
         IN  IF top.todo = <<>>
             THEN [t |-> loop_test([t EXCEPT !.frames = <<>>], <<>>), g |-> g]
             ELSE LET neighbor == top.todo[1]
                      t1 == [t EXCEPT !.frames[1].todo = Tail(@)]
                  IN  IF neighbor \notin t1.visited
                      THEN dfs_helper(g, t1, neighbor)
                      ELSE dfs_recursive_step_return_first(g, t1)

RECURSIVE dfs_recursive_step(_, _)
dfs_recursive_step(g, t) ==
    IF t.frames = <<>> THEN [t |-> loop_test(t, <<>>), g |-> g]
    ELSE LET top == t.frames[1]
         IN  IF top.todo = <<>>
             THEN dfs_recursive_step(g, [t EXCEPT !.frames = Tail(@)])
             ELSE LET neighbor == top.todo[1]
                      t1 == [t EXCEPT !.frames[1].todo = Tail(@)]
                  IN  IF neighbor \notin t1.visited
                      THEN dfs_helper(g, t1, neighbor)
                      ELSE dfs_recursive_step(g, t1)

dfs_iterative_call(g, s) ==
    IF ~Has(g, s) THEN ReturnEmpty
    ELSE [NoTraversal EXCEPT !.pc = "Visiting", !.stack = <<s>>]

RECURSIVE dfs_iterative_push_marking(_, _)
dfs_iterative_push_marking(t, nbrs) ==
    IF nbrs = <<>> THEN t
    ELSE IF nbrs[1] \notin t.visited
         THEN dfs_iterative_push_marking([t EXCEPT !.visited = @ \cup {nbrs[1]},
                                                   !.stack = Append(@, nbrs[1])],
                                         Tail(nbrs))
         ELSE dfs_iterative_push_marking(t, Tail(nbrs))

(* a push that leaves out the neighbours that are on the stack already *)
dfs_iterative_push_once(t, nbrs) ==
    LET fresh(neighbor) ==
            neighbor \notin t.visited /\ \A i \in 1..Len(t.stack) : t.stack[i] # neighbor
    IN  [t EXCEPT !.stack = @ \o SelectSeq(nbrs, fresh)]

(* visited does not change in this loop: the neighbours not visited are *)
(* appended in the order of the list                                    *)
dfs_iterative_push(t, nbrs) ==
    LET not_visited(neighbor) == neighbor \notin t.visited
    IN  [t EXCEPT !.stack = @ \o SelectSeq(nbrs, not_visited)]

dfs_iterative_step_unchecked(g, t) ==
    LET n      == Len(t.stack)
        vertex == t.stack[n]
        t1     == [t EXCEPT !.stack = SubSeq(@, 1, n - 1)]
        t2     == [t1 EXCEPT !.visited = @ \cup {vertex},
                             !.result = Append(@, vertex)]
        r      == sorted_neighbors_reverse(g, vertex)
        t3     == dfs_iterative_push(t2, r.list)
    IN  [t |-> loop_test(t3, t3.stack), g |-> r.g]

(* the top of the stack is looked at and stays there when already visited *)
dfs_iterative_step_peek(g, t) ==
    LET n      == Len(t.stack)
        vertex == t.stack[n]
    IN  IF vertex \notin t.visited
        THEN LET t2 == [t EXCEPT !.stack = SubSeq(@, 1, n - 1),
                                 !.visited = @ \cup {vertex},
                                 !.result = Append(@, vertex)]
                 r  == sorted_neighbors_reverse(g, vertex)
                 t3 == dfs_iterative_push(t2, r.list)
             IN  [t |-> loop_test(t3, t3.stack), g |-> r.g]
        ELSE [t |-> t, g |-> g]

dfs_iterative_step(g, t) ==
    LET n      == Len(t.stack)
        vertex == t.stack[n]
        t1     == [t EXCEPT !.stack = SubSeq(@, 1, n - 1)]
    IN  IF vertex \notin t1.visited
        THEN LET t2 == [t1 EXCEPT !.visited = @ \cup {vertex},
                                  !.result = Append(@, vertex)]
             IN  IF ~Has(g, vertex) THEN [t |-> KeyError(t2), g |-> g]
                 ELSE LET r  == sorted_neighbors_reverse(g, vertex)
                          t3 == dfs_iterative_push(t2, r.list)
                      IN  [t |-> loop_test(t3, t3.stack), g |-> r.g]
        ELSE [t |-> loop_test(t1, t1.stack), g |-> g]

Traversals == {"bfs", "dfs_recursive", "dfs_iterative"}

call(a, g, s) ==
    CASE a = "bfs"           -> bfs_call(g, s)
      [] a = "dfs_recursive" -> dfs_recursive_call(g, s)
      [] a = "dfs_iterative" -> dfs_iterative_call(g, s)

step(a, g, t) ==
    CASE a = "bfs"           -> bfs_step(g, t)
      [] a = "dfs_recursive" -> dfs_recursive_step(g, t)
      [] a = "dfs_iterative" -> dfs_iterative_step(g, t)

(* the call run to its end *)
RECURSIVE finish(_, _, _)
finish(a, g, t) ==
    IF t.pc = "Visiting"
    THEN LET n == step(a, g, t) IN finish(a, n.g, n.t)
    ELSE t

Traverse(a, g, s) == finish(a, g, call(a, g, s)).ret

(* ---------------------------------------------------------- state machine *)
(* no sort function runs while the Graph object is exercised *)
SortParked ==
    /\ fn = "none"
    /\ num_buckets = num_buckets_default
    /\ pc = "idle"
    /\ S = <<>>
    /\ arr = <<>>
    /\ local = NoLocals
    /\ exec = Returned(<<>>, <<>>)
    /\ k = 0
    /\ ret = <<>>
    /\ round = 1
    /\ prev = <<>>

(* g = Graph() *)
GraphInit ==
    /\ SortParked
    /\ SingletonParked
    /\ graph = <<>>
    /\ hist = <<>>
    /\ alg = "none"
    /\ start = 0
    /\ trav = NoTraversal

AddVertexOp(v) == [op |-> "add_vertex", u |-> v, v |-> v]

AddEdgeOp(u, v) == [op |-> "add_edge", u |-> u, v |-> v]

SampleOp == [op |-> "create_sample_graph", u |-> 0, v |-> 0]

IsSample == hist = <<SampleOp>>

Building == alg = "none" /\ ~IsSample /\ Len(hist) < MaxOps

AddVertex ==
    /\ Building
    /\ \E v \in Vertices :
          /\ graph' = add_vertex(graph, v)
          /\ hist' = Append(hist, AddVertexOp(v))
    /\ UNCHANGED <<alg, start, trav>>
    /\ UNCHANGED svars
    /\ UNCHANGED tvars

AddEdge ==
    /\ Building
    /\ \E u \in Vertices, v \in Vertices :
          /\ graph' = add_edge(graph, u, v)
          /\ hist' = Append(hist, AddEdgeOp(u, v))
    /\ UNCHANGED <<alg, start, trav>>
    /\ UNCHANGED svars
    /\ UNCHANGED tvars

CreateSampleGraph ==
    /\ alg = "none"
    /\ hist = <<>>
    /\ graph' = create_sample_graph
    /\ hist' = <<SampleOp>>
    /\ UNCHANGED <<alg, start, trav>>
    /\ UNCHANGED svars
    /\ UNCHANGED tvars

(* the start vertices tried: every vertex present, and the absent ones *)
Starts == Vertices \cup DOMAIN graph

CallTraversal(a) ==
    \E s \in Starts :
       /\ alg' = a
       /\ start' = s
       /\ trav' = call(a, graph, s)
       /\ UNCHANGED <<graph, hist>>
       /\ UNCHANGED svars
       /\ UNCHANGED tvars

CallBfs == alg = "none" /\ CallTraversal("bfs")

CallDfsRecursive == alg = "none" /\ CallTraversal("dfs_recursive")

CallDfsIterative == alg = "none" /\ CallTraversal("dfs_iterative")

StepTraversal(a) ==
    /\ trav.pc = "Visiting"
    /\ LET n == step(a, graph, trav)
       IN  /\ trav' = n.t
           /\ graph' = n.g
    /\ UNCHANGED <<hist, alg, start>>
    /\ UNCHANGED svars
    /\ UNCHANGED tvars

StepBfs == alg = "bfs" /\ StepTraversal("bfs")

StepDfsRecursive == alg = "dfs_recursive" /\ StepTraversal("dfs_recursive")

StepDfsIterative == alg = "dfs_iterative" /\ StepTraversal("dfs_iterative")

GraphNext ==
    \/ AddVertex
    \/ AddEdge
    \/ CreateSampleGraph
    \/ CallBfs
    \/ CallDfsRecursive
    \/ CallDfsIterative
    \/ StepBfs
    \/ StepDfsRecursive
    \/ StepDfsIterative

GraphSpec == GraphInit /\ [][GraphNext]_vars

(* ------------------------------------------------------------ properties *)
(* ------------------------------------------- traversals of a built graph *)
MaxBuilt == 2

Ops ==
    {AddVertexOp(v) : v \in Vertices}
        \cup {AddEdgeOp(u, v) : u \in Vertices, v \in Vertices}

RECURSIVE Histories(_)
Histories(n) ==
    IF n = 0 THEN {<<>>}
    ELSE LET H == Histories(n - 1)
         IN  H \cup {Append(h, o) : h \in H, o \in Ops}

apply(g, o) ==
    IF o.op = "add_vertex" THEN add_vertex(g, o.v) ELSE add_edge(g, o.u, o.v)

RECURSIVE Replay(_, _)
Replay(g, h) == IF h = <<>> THEN g ELSE Replay(apply(g, h[1]), Tail(h))

(* the graph main() traverses, or one built by at most MaxBuilt calls *)
BuiltGraphInit ==
    /\ SortParked
    /\ SingletonParked
    /\ alg = "none"
    /\ start = 0
    /\ trav = NoTraversal
    /\ \/ hist = <<SampleOp>> /\ graph = create_sample_graph
       \/ \E h \in Histories(MaxBuilt) : hist = h /\ graph = Replay(<<>>, h)

TraversalStep == StepBfs \/ StepDfsRecursive \/ StepDfsIterative

TraversalNext ==
    \/ CallBfs
    \/ CallDfsRecursive
    \/ CallDfsIterative
    \/ StepBfs
    \/ StepDfsRecursive
    \/ StepDfsIterative

(* a call runs synchronously to its return: a traversal that can take a *)
(* step takes it                                                       *)
GraphFairSpec == BuiltGraphInit /\ [][TraversalNext]_vars /\ WF_vars(TraversalStep)

Called == alg \in Traversals

Ended == Called /\ trav.pc # "Visiting"

Present == Has(graph, start)

(* C11: on the sample graph (edges A-B, A-C, B-D, B-E, C-F, E-F added in   *)
(* that order) bfs from A returns A,B,C,D,E,F; dfs_recursive from A returns *)
(* A,B,D,E,F,C; dfs_iterative from A returns what dfs_recursive returns.    *)
C11_SampleTraversals ==
    (IsSample /\ Ended /\ start = 1) =>
        /\ trav.pc = "Done"
        /\ alg = "bfs" => trav.ret = <<1, 2, 3, 4, 5, 6>>
        /\ alg = "dfs_recursive" => trav.ret = <<1, 2, 4, 5, 6, 3>>
        /\ alg = "dfs_iterative" => trav.ret = Traverse("dfs_recursive", graph, 1)

C11_Witness ==
    /\ IsSample
    /\ Ended
    /\ start = 1
    /\ alg = "dfs_iterative"
    /\ trav.ret = <<1, 2, 4, 5, 6, 3>>

(* C12: on every graph built by add_vertex and add_edge calls (repeated     *)
(* edges and self-loops included) and for every start vertex, dfs_iterative *)
(* returns the list dfs_recursive returns.                                  *)
C12_IterativeIsRecursive ==
    (Ended /\ alg = "dfs_iterative") =>
        /\ trav.pc = "Done"
        /\ trav.ret = Traverse("dfs_recursive", graph, start)

(* a cycle through three vertices: the stack held a vertex a second time *)
C12_Witness ==
    /\ Ended
    /\ alg = "dfs_iterative"
    /\ Len(trav.ret) = 3
    /\ \A v \in Vertices : Has(graph, v) /\ Len(graph[v]) = 2

(* C13: called with a start vertex that is not in the graph, bfs,           *)
(* dfs_recursive and dfs_iterative each return the empty list without an    *)
(* error and without ever being in Visiting: nothing is visited.            *)
C13_AbsentStart ==
    (Called /\ ~Present) =>
        /\ trav.pc = "Done"
        /\ trav.ret = <<>>
        /\ trav.result = <<>>
        /\ trav.visited = {}

C13_Witness ==
    /\ Called
    /\ ~Present
    /\ alg = "bfs"
    /\ Len(hist) = MaxOps
    /\ \E v \in Vertices : Has(graph, v) /\ graph[v] # <<>>
    /\ trav.pc = "Done"

NoDuplicates(s) == \A i, j \in 1..Len(s) : s[i] = s[j] => i = j

(* C14: at every step of bfs, dfs_recursive and dfs_iterative the result    *)
(* accumulated so far, and so the list returned, holds no vertex twice.     *)
C14_ResultNoDuplicates ==
    Called => NoDuplicates(trav.result) /\ NoDuplicates(trav.ret)

(* dfs_iterative is about to pop a vertex it has already visited *)
C14_Witness ==
    /\ alg = "dfs_iterative"
    /\ trav.pc = "Visiting"
    /\ trav.stack[Len(trav.stack)] \in trav.visited
    /\ Len(trav.result) >= 2
    /\ NoDuplicates(trav.result)

(* C15: a traversal only reads the graph. The call and every step of it,    *)
(* the last one included, with the start vertex present or absent, leave    *)
(* the graph with the same keys and the same adjacency lists in the same    *)
(* order.                                                                   *)
C15_TraversalReadOnly ==
    [][Called' => graph' = graph]_vars

(* a finished traversal has read an adjacency list that is not in sorted order *)
C15_Witness ==
    /\ Ended
    /\ Present
    /\ \E v \in trav.visited : graph[v] # sorted(graph[v])
    /\ trav.ret = trav.result

LastOp == hist[Len(hist)]

(* C16: add_vertex(v) with v already in the graph changes nothing: the      *)
(* whole mapping, v's adjacency list included, stays as it is. With v       *)
(* absent it adds v with an empty adjacency list and changes no other       *)
(* vertex.                                                                  *)
C16_AddVertexIdempotent ==
    [][\A v \in Vertices :
          hist' = Append(hist, AddVertexOp(v)) =>
              IF Has(graph, v)
              THEN graph' = graph
              ELSE /\ DOMAIN graph' = DOMAIN graph \cup {v}
                   /\ graph'[v] = <<>>
                   /\ \A w \in DOMAIN graph : graph'[w] = graph[w]]_vars

(* add_vertex was just called on a vertex that has neighbours *)
C16_Witness ==
    /\ hist # <<>>
    /\ LastOp.op = "add_vertex"
    /\ Has(graph, LastOp.v)
    /\ graph[LastOp.v] # <<>>

Occurrences(x, s) == Cardinality({i \in 1..Len(s) : s[i] = x})

OnlyEdge(h, u, v) == h # <<>> /\ \A i \in 1..Len(h) : h[i] = AddEdgeOp(u, v)

(* adjacency list of w before the call, empty when add_edge has to create w *)
AdjacencyOrEmpty(w) == IF Has(graph, w) THEN graph[w] ELSE <<>>

(* C17: add_edge(u, v) makes u and v vertices when they are not, appends v  *)
(* to the end of u's adjacency list and then u to the end of v's, and       *)
(* leaves every other adjacency list as it is. It is not idempotent: after  *)
(* n calls add_edge(u, v), u # v, on a fresh graph v is n times in u's list *)
(* and u is n times in v's list.                                            *)
C17_AddEdgeAppends ==
    [][\A u, v \in Vertices :
          hist' = Append(hist, AddEdgeOp(u, v)) =>
              /\ DOMAIN graph' = DOMAIN graph \cup {u, v}
              /\ \A w \in DOMAIN graph \ {u, v} : graph'[w] = graph[w]
              /\ IF u = v
                 THEN graph'[u] = AdjacencyOrEmpty(u) \o <<v, u>>
                 ELSE /\ graph'[u] = Append(AdjacencyOrEmpty(u), v)
                      /\ graph'[v] = Append(AdjacencyOrEmpty(v), u)
              /\ (u # v /\ OnlyEdge(hist', u, v)) =>
                     /\ Occurrences(v, graph'[u]) = Len(hist')
                     /\ Occurrences(u, graph'[v]) = Len(hist')]_vars

(* the same edge added again and again to a fresh graph *)
C17_Witness ==
    \E u, v \in Vertices :
       /\ u # v
       /\ OnlyEdge(hist, u, v)
       /\ Len(hist) = MaxOps
       /\ Occurrences(v, graph[u]) = MaxOps
       /\ alg = "none"

(* C18: in every graph reached by add_vertex and add_edge calls, for all    *)
(* vertices u # v, v occurs in u's adjacency list as many times as u occurs *)
(* in v's, so v is a neighbour of u exactly when u is one of v; and every   *)
(* identifier in an adjacency list is a key of the graph.                   *)
C18_Undirected ==
    /\ \A u, v \in DOMAIN graph :
          u # v => Occurrences(v, graph[u]) = Occurrences(u, graph[v])
    /\ \A u \in DOMAIN graph : \A i \in 1..Len(graph[u]) : Has(graph, graph[u][i])

(* a repeated edge and a self-loop *)
C18_Witness ==
    /\ \E u, v \in DOMAIN graph : u # v /\ Occurrences(v, graph[u]) = 2
    /\ \E u \in DOMAIN graph : Occurrences(u, graph[u]) = 2
    /\ Len(hist) = MaxOps

(* the queue of bfs, the active dfs_helper calls, the stack of dfs_iterative *)
Frontier ==
    CASE alg = "bfs"           -> trav.queue
      [] alg = "dfs_recursive" -> trav.frames
      [] alg = "dfs_iterative" -> trav.stack
      [] OTHER                 -> <<>>

LifecycleInv ==
    /\ ~Called => trav.pc = "NotStarted"
    /\ (Called /\ Present) => trav.pc \in {"Visiting", "Done"}
    /\ trav.pc = "Visiting" => Frontier # <<>>
    /\ trav.pc = "Done" => Frontier = <<>> /\ trav.ret = trav.result

LifecycleStep ==
    /\ (trav.pc = "NotStarted" /\ Called' /\ Present') => trav'.pc = "Visiting"
    /\ trav.pc = "Done" => trav'.pc = "Done"

(* C19: a traversal called with a present start vertex goes NotStarted ->   *)
(* Visiting -> Done. It is in Visiting only with a non-empty frontier       *)
(* (queue, recursion, stack), it reaches Done, with the frontier empty, it  *)
(* never leaves Done, and the value returned is the result accumulated.     *)
(* LifecycleInv holds in the first state and after every step, that is, in  *)
(* every state.                                                             *)
C19_TraversalLifecycle ==
    /\ LifecycleInv
    /\ [][LifecycleInv' /\ LifecycleStep]_vars
    /\ (Called /\ Present) ~> (trav.pc = "Done")

(* a traversal of three vertices has returned *)
C19_Witness ==
    /\ Called
    /\ Present
    /\ trav.pc = "Done"
    /\ Len(trav.ret) = 3
    /\ trav.visited = Vertices

(* the undirected edges of a graph, each as <<smaller, larger>> *)
EdgeSet(g) ==
    {e \in (DOMAIN g) \X (DOMAIN g) : e[1] <= e[2] /\ Occurrences(e[2], g[e[1]]) > 0}

(* the graph with these edges, each added once, smaller endpoint first, in *)
(* ascending order                                                        *)
RECURSIVE Canonical(_, _)
Canonical(g, E) ==
    IF E = {} THEN g
    ELSE LET e == CHOOSE x \in E : \A y \in E :
                      x[1] < y[1] \/ (x[1] = y[1] /\ x[2] <= y[2])
         IN  Canonical(add_edge(g, e[1], e[2]), E \ {e})

OnlyEdges == \A i \in 1..Len(hist) : hist[i].op \in {"add_edge", "create_sample_graph"}

(* C20: the lists the traversals return depend on the set of undirected     *)
(* edges only. A graph built by add_edge calls in any order, with the       *)
(* endpoints either way round and any edge repeated, gives for bfs,         *)
(* dfs_recursive and dfs_iterative from every start what the graph gives    *)
(* that holds each of the same edges once, in ascending order; so any two   *)
(* graphs built from one edge set give the same lists.                      *)
C20_EdgeSetDeterminesResult ==
    (Ended /\ OnlyEdges) =>
        /\ trav.pc = "Done"
        /\ trav.ret = Traverse(alg, Canonical(<<>>, EdgeSet(graph)), start)

(* the start vertex has a repeated neighbour and its list is not in order *)
C20_Witness ==
    /\ Ended
    /\ OnlyEdges
    /\ Present
    /\ graph[start] # sorted(graph[start])
    /\ \E v \in Vertices : Occurrences(v, graph[start]) = 2
    /\ Len(trav.ret) = 3
    /\ graph # Canonical(<<>>, EdgeSet(graph))

Range(s) == {s[i] : i \in 1..Len(s)}

IsPrefix(s, r) == Len(s) <= Len(r) /\ SubSeq(r, 1, Len(s)) = s

(* the vertices bfs has enqueued so far, in the order it enqueued them: *)
(* those dequeued into result, then those still waiting                *)
Enqueued(t) == t.result \o t.queue

Adjacent(g, u, v) == Has(g, u) /\ v \in Range(g[u])

(* C21: bfs marks a vertex when it enqueues it. At every step of the loop   *)
(* the queue holds no vertex twice, no vertex has been enqueued twice in    *)
(* the whole traversal, every queued vertex is in visited, visited is the   *)
(* vertices of result together with those of the queue, and result is the  *)
(* dequeue order, which is the order of enqueueing: a step moves the head   *)
(* of the queue to the end of result and enqueues at the tail only.         *)
C21_BfsMarksOnEnqueue ==
    [][alg' = "bfs" =>
          /\ NoDuplicates(trav'.queue)
          /\ NoDuplicates(Enqueued(trav'))
          /\ Range(trav'.queue) \subseteq trav'.visited
          /\ trav'.visited = Range(trav'.result) \cup Range(trav'.queue)
          /\ alg = "bfs" =>
                /\ trav'.result = Append(trav.result, Head(trav.queue))
                /\ IsPrefix(Enqueued(trav), Enqueued(trav'))]_vars

(* a queued vertex is a neighbour of two vertices already dequeued *)
C21_Witness ==
    /\ alg = "bfs"
    /\ trav.pc = "Visiting"
    /\ \E v \in Range(trav.queue) : \E x, y \in Range(trav.result) :
          x # y /\ Adjacent(graph, x, v) /\ Adjacent(graph, y, v)

Top(s) == s[Len(s)]

Popped(s) == SubSeq(s, 1, Len(s) - 1)

(* C22: dfs_iterative marks a vertex when it pops it. A pop of a vertex     *)
(* that is already visited changes neither result nor visited and pushes    *)
(* nothing. A pop of a vertex not yet visited, its first, adds it to        *)
(* visited and to the end of result and pushes its neighbours that are not  *)
(* visited, whether or not they are on the stack; nothing else ever adds to *)
(* visited or result. So one unvisited vertex can be on the stack more than *)
(* once at a time, which the witness shows to happen.                       *)
C22_DfsIterativeMarksOnPop ==
    [][(alg = "dfs_iterative" /\ trav.pc = "Visiting") =>
          IF Top(trav.stack) \in trav.visited
          THEN /\ trav'.result = trav.result
               /\ trav'.visited = trav.visited
               /\ trav'.stack = Popped(trav.stack)
          ELSE /\ trav'.result = Append(trav.result, Top(trav.stack))
               /\ trav'.visited = trav.visited \cup {Top(trav.stack)}
               /\ IsPrefix(Popped(trav.stack), trav'.stack)
               /\ Range(SubSeq(trav'.stack, Len(trav.stack), Len(trav'.stack)))
                     = Range(graph[Top(trav.stack)]) \ trav'.visited]_vars

(* a vertex not yet visited is on the stack twice *)
C22_Witness ==
    /\ alg = "dfs_iterative"
    /\ trav.pc = "Visiting"
    /\ \E i, j \in 1..Len(trav.stack) :
          /\ i < j
          /\ trav.stack[i] = trav.stack[j]
          /\ trav.stack[i] \notin trav.visited
          /\ Occurrences(trav.stack[i], graph[trav.result[Len(trav.result)]]) = 1

(* ------------------------------------------------------- paths in a graph *)
(* U and the vertices one edge away from U *)
Neighbourhood(g, U) == U \cup {v \in DOMAIN g : \E u \in U : Adjacent(g, u, v)}

(* the vertices at most n edges away from U *)
RECURSIVE Ball(_, _, _)
Ball(g, U, n) == IF n = 0 THEN U ELSE Ball(g, Neighbourhood(g, U), n - 1)

Reachable(g, s) == Ball(g, {s}, Cardinality(DOMAIN g))

Connected(g) == \A u \in DOMAIN g : Reachable(g, u) = DOMAIN g

(* the length of a shortest path from u to v, v reachable from u *)
Dist(g, u, v) ==
    CHOOSE n \in 0..Cardinality(DOMAIN g) :
        /\ v \in Ball(g, {u}, n)
        /\ n = 0 \/ v \notin Ball(g, {u}, n - 1)

(* the longest shortest path of a connected graph *)
Diameter(g) ==
    CHOOSE d \in 0..Cardinality(DOMAIN g) :
        /\ \A u, v \in DOMAIN g : Dist(g, u, v) <= d
        /\ \E u, v \in DOMAIN g : Dist(g, u, v) = d

(* the number of dfs_helper calls that are active *)
Depth == Len(trav.frames)

(* C26 as stated: on a connected graph the number of active dfs_helper      *)
(* calls never exceeds the diameter of the graph plus one. It does: on a    *)
(* cycle of three vertices the diameter is 1 and the third vertex is        *)
(* entered at depth 3.                                                      *)
C26_DepthWithinDiameter ==
    (alg = "dfs_recursive" /\ Present /\ Connected(graph)) =>
        Depth <= Diameter(graph) + 1

(* C26 amended: the active dfs_helper calls are calls for distinct visited  *)
(* vertices, so on every graph their number never exceeds the number of     *)
(* vertices reachable from the start vertex.                                *)
C26_DepthWithinReachable ==
    (alg = "dfs_recursive" /\ Present) =>
        /\ \A i, j \in 1..Depth : trav.frames[i].vertex = trav.frames[j].vertex => i = j
        /\ \A i \in 1..Depth : trav.frames[i].vertex \in trav.visited
        /\ Depth <= Cardinality(Reachable(graph, start))

(* every reachable vertex has an active call, more calls than diameter + 1 *)
C26_Witness ==
    /\ alg = "dfs_recursive"
    /\ Present
    /\ Connected(graph)
    /\ Depth = Cardinality(Reachable(graph, start))
    /\ Depth > Diameter(graph) + 1

(* C29: for every graph and every start vertex in it, the vertices in the  *)
(* list bfs returns, in the list dfs_recursive returns and in the list      *)
(* dfs_iterative returns are exactly the vertices reachable from the start  *)
(* along edges, the start included, each once: the three lists are          *)
(* permutations of one another.                                             *)
C29_ResultIsReachableSet ==
    (Ended /\ Present) =>
        /\ trav.pc = "Done"
        /\ Range(trav.ret) = Reachable(graph, start)
        /\ NoDuplicates(trav.ret)
        /\ \A a \in Traversals :
              /\ Range(Traverse(a, graph, start)) = Range(trav.ret)
              /\ Len(Traverse(a, graph, start)) = Len(trav.ret)

(* some vertices are reachable from the start, others are not *)
C29_Witness ==
    /\ Ended
    /\ Present
    /\ Len(trav.ret) >= 2
    /\ Reachable(graph, start) # DOMAIN graph
    /\ Range(trav.ret) = Reachable(graph, start)

(* the distances from the start vertex never go down along the list *)
DistanceOrdered(s) ==
    \A i, j \in 1..Len(s) :
        i < j => Dist(graph, start, s[i]) <= Dist(graph, start, s[j])

(* C30: bfs visits the vertices in the order of their distance from the     *)
(* start: a vertex that comes earlier in the list returned is not farther   *)
(* from the start, in edges of a shortest path, than one that comes later;  *)
(* and at every step the distances of the queued vertices never go down     *)
(* from head to tail and differ by at most one.                             *)
C30_BfsDistanceOrder ==
    (alg = "bfs" /\ Present) =>
        /\ DistanceOrdered(trav.result \o trav.queue)
        /\ DistanceOrdered(trav.ret)
        /\ \A i, j \in 1..Len(trav.queue) :
              Dist(graph, start, trav.queue[j]) - Dist(graph, start, trav.queue[i]) <= 1

(* vertices one and two edges away from the start wait in the queue *)
C30_Witness ==
    /\ alg = "bfs"
    /\ Present
    /\ trav.pc = "Visiting"
    /\ Len(trav.queue) >= 2
    /\ Dist(graph, start, trav.queue[1]) = 1
    /\ Dist(graph, start, trav.queue[Len(trav.queue)]) = 2

(* ------------------------------------------------- passes of bubble_sort *)
KeysAscending(s) == \A i \in 1..(Len(s) - 1) : s[i] <= s[i + 1]

(* the passes of the bubble_sort call on S *)
Passes == bubble_run("arr", S).passes

(* the last m positions of the list hold its m largest keys in ascending order *)
LargestAtEnd(a, m) ==
    LET n == Len(a)
    IN  /\ KeysAscending(SubSeq(Vals(a), n - m + 1, n))
        /\ \A p \in 1..(n - m) : \A q \in (n - m + 1)..n : a[p].key <= a[q].key

(* C23: bubble_sort stops after the first pass without a swap: every pass   *)
(* but the last one swaps, so a list already in order of length n >= 2 gets *)
(* one pass of n - 1 comparisons and no swap; and after pass i (from 0) the *)
(* last i + 1 positions hold the i + 1 largest elements in order.           *)
C23_BubbleEarlyExit ==
    (fn = "bubble_sort" /\ pc = "returned") =>
        /\ \A p \in 1..Len(Passes) :
              /\ Passes[p].i = p - 1
              /\ Passes[p].compared = Len(S) - p
              /\ Passes[p].swaps = 0 => p = Len(Passes)
              /\ LargestAtEnd(Passes[p].arr, p)
        /\ Len(Passes) <= Len(S)
        /\ Len(S) >= 1 => Len(Passes) >= 1 /\ Passes[Len(Passes)].arr = ret
        /\ (Len(S) >= 2 /\ KeysAscending(Vals(S))) =>
              /\ Len(Passes) = 1
              /\ Passes[1].compared = Len(S) - 1
              /\ Passes[1].swaps = 0

(* bubble_sort has returned a list that was in order when it was called *)
C23_Witness ==
    /\ fn = "bubble_sort"
    /\ pc = "returned"
    /\ Len(S) = MaxLen
    /\ KeysAscending(Vals(S))
    /\ Vals(S)[1] < Vals(S)[MaxLen]
    /\ Len(Passes) = 1
    /\ Passes[1].compared = MaxLen - 1

(* ------------------------------------------- negative keys in radix_sort *)
IsNegativeKey(x) == x < 0

IsNonNegativeKey(x) == x >= 0

(* what the recursive call returns for the magnitudes of the negative keys *)
SortedMagnitudes ==
    LET neg == SelectSeq(Vals(S), IsNegativeKey)
    IN  Vals(radix_sort("neg", [i \in 1..Len(neg) |-> Elem(0 - neg[i], 0)]).ret)

(* C24: on an input with a negative number radix_sort returns the negative  *)
(* part followed by the sorted non-negative part. The negative part is in   *)
(* descending order of magnitude: it is the list the recursive call returns *)
(* for the magnitudes, which is ascending, negated element by element and   *)
(* then reversed once.                                                      *)
C24_RadixNegativePart ==
    (fn = "radix_sort" /\ pc = "returned" /\ \E i \in 1..Len(S) : S[i].key < 0) =>
        /\ Vals(ret) = Vals(local.neg) \o Vals(local.pos)
        /\ KeysAscending(SortedMagnitudes)
        /\ Len(local.neg) = Len(SortedMagnitudes)
        /\ \A i \in 1..Len(local.neg) :
              local.neg[i].key = 0 - SortedMagnitudes[Len(SortedMagnitudes) + 1 - i]
        /\ \A i \in 1..(Len(local.neg) - 1) :
              Abs(local.neg[i].key) >= Abs(local.neg[i + 1].key)
        /\ Vals(local.pos) = sorted(SelectSeq(Vals(S), IsNonNegativeKey))

(* two negative numbers of different magnitude, out of order, and others *)
C24_Witness ==
    /\ fn = "radix_sort"
    /\ pc = "returned"
    /\ round = 1
    /\ Vals(S) = <<-1, 2, -10, 0>>
    /\ Vals(local.neg) = <<-10, -1>>
    /\ Vals(ret) = <<-10, -1, 0, 2>>

(* ------------------------------------------------ indices of bucket_sort *)
(* index as line 293 computes it for element x of S, before the special case *)
IndexBeforeClamp(x) ==
    FloatIndex(x.key - MinOf(Vals(S)), MaxOf(Vals(S)) - MinOf(Vals(S)), num_buckets)

(* the index buckets[index] is accessed with for element x of S *)
IndexUsed(x) == bucket_index(x, MinOf(Vals(S)), MaxOf(Vals(S)), num_buckets)

(* C25: in bucket_sort with k >= 1 buckets on an input with max > min the   *)
(* index computed for an element lies in 0..k before the special case, it   *)
(* is k only for an element equal to the maximum, and then k - 1 is used;   *)
(* so buckets[index] is always accessed with an index in 0..k-1, the call   *)
(* does not raise, and every element is in the result exactly once.         *)
C25_BucketIndexRange ==
    (fn = "bucket_sort" /\ pc \in {"returned", "raised"}
        /\ Len(S) > 0 /\ MaxOf(Vals(S)) > MinOf(Vals(S))) =>
        /\ \A i \in 1..Len(S) :
              /\ IndexBeforeClamp(S[i]) \in 0..num_buckets
              /\ IndexBeforeClamp(S[i]) = num_buckets => S[i].key = MaxOf(Vals(S))
              /\ IndexUsed(S[i]) \in 0..(num_buckets - 1)
              /\ IndexUsed(S[i]) =
                    IF IndexBeforeClamp(S[i]) = num_buckets
                    THEN num_buckets - 1 ELSE IndexBeforeClamp(S[i])
        /\ pc = "returned"
        /\ IsPermutation(ret, S)

(* the maximum gets index k, another element an index between 0 and k *)
C25_Witness ==
    /\ fn = "bucket_sort"
    /\ pc = "returned"
    /\ num_buckets = MaxBuckets
    /\ Len(S) >= 3
    /\ \E i \in 1..Len(S) : IndexBeforeClamp(S[i]) = num_buckets
    /\ \E i \in 1..Len(S) : IndexBeforeClamp(S[i]) \in 1..(num_buckets - 1)
    /\ \E i \in 1..Len(S) : IndexBeforeClamp(S[i]) = 0

(***************************************************************************)
(* ThreadSafeSingleton (singleton_pattern.py, lines 139-164).              *)
(* Threads call ThreadSafeSingleton() concurrently.  Each action is one    *)
(* step of __new__ between two points where the interpreter may switch     *)
(* threads: the unlocked test of _instance, taking the lock, the test      *)
(* under the lock, the allocation with its store to _instance, the call of *)
(* initialize(), leaving the lock, and the return.  Objects live in heap;  *)
(* instance is the class attribute _instance (None or an index of heap),   *)
(* lock the thread holding _lock (None when free).                         *)
(***************************************************************************)
MaxThreads == 2
MaxCalls == 2

Threads == 1 .. MaxThreads

(* an attribute the object does not have yet *)
Unset == "unset"

(* super(ThreadSafeSingleton, cls).__new__(cls): an object without value *)
new_object == [value |-> Unset]

(* initialize(self): self.value = 0 *)
initialize(self) == [self EXCEPT !.value = 0]

(* line 149, outside the lock: if cls._instance is None *)
first_check(inst) == IF inst = None THEN "acquire" ELSE "return"

second_check_skipped(inst) == "create"

(* line 151, under the lock: if cls._instance is None *)
second_check(inst) == IF inst = None THEN "create" ELSE "release"

(* what a caller holds after the call: the object and its value attribute *)
(* at the moment __new__ returned                                          *)
returned(inst, h) ==
    IF inst = None THEN [obj |-> None, value |-> Unset]
    ELSE [obj |-> inst, value |-> h[inst].value]

goto(t, l) == [thread EXCEPT ![t].pc = l]

SingletonInit ==
    /\ SortParked
    /\ GraphParked
    /\ instance = None
    /\ lock = None
    /\ heap = <<>>
    /\ thread = [t \in Threads |-> [pc |-> "idle", calls |-> 0, got |-> <<>>]]

(* a thread calls ThreadSafeSingleton() *)
Construct ==
    \E t \in Threads :
        /\ thread[t].pc = "idle"
        /\ thread[t].calls < MaxCalls
        /\ thread' = [thread EXCEPT ![t].pc = "check1", ![t].calls = @ + 1]
        /\ UNCHANGED <<instance, lock, heap>>
        /\ UNCHANGED <<svars, gvars>>

FirstCheck ==
    \E t \in Threads :
        /\ thread[t].pc = "check1"
        /\ thread' = goto(t, first_check(instance))
        /\ UNCHANGED <<instance, lock, heap>>
        /\ UNCHANGED <<svars, gvars>>

(* with cls._lock: blocks while another thread holds the lock *)
AcquireLock ==
    \E t \in Threads :
        /\ thread[t].pc = "acquire"
        /\ lock = None
        /\ lock' = t
        /\ thread' = goto(t, "check2")
        /\ UNCHANGED <<instance, heap>>
        /\ UNCHANGED <<svars, gvars>>

SecondCheck ==
    \E t \in Threads :
        /\ thread[t].pc = "check2"
        /\ thread' = goto(t, second_check(instance))
        /\ UNCHANGED <<instance, lock, heap>>
        /\ UNCHANGED <<svars, gvars>>

(* line 153: cls._instance = super(...).__new__(cls) *)
Create ==
    \E t \in Threads :
        /\ thread[t].pc = "create"
        /\ heap' = Append(heap, new_object)
        /\ instance' = Len(heap) + 1
        /\ thread' = goto(t, "init")
        /\ UNCHANGED lock
        /\ UNCHANGED <<svars, gvars>>

(* line 154: cls._instance.initialize() *)
Initialize ==
    \E t \in Threads :
        /\ thread[t].pc = "init"
        /\ heap' = [heap EXCEPT ![instance] = initialize(@)]
        /\ thread' = goto(t, "release")
        /\ UNCHANGED <<instance, lock>>
        /\ UNCHANGED <<svars, gvars>>

(* end of the with block *)
ReleaseLock ==
    \E t \in Threads :
        /\ thread[t].pc = "release"
        /\ lock' = None
        /\ thread' = goto(t, "return")
        /\ UNCHANGED <<instance, heap>>
        /\ UNCHANGED <<svars, gvars>>

(* line 155: return cls._instance *)
ReturnInstance ==
    \E t \in Threads :
        /\ thread[t].pc = "return"
        /\ thread' = [thread EXCEPT ![t].pc = "idle",
                                    ![t].got = Append(@, returned(instance, heap))]
        /\ UNCHANGED <<instance, lock, heap>>
        /\ UNCHANGED <<svars, gvars>>

SingletonNext ==
    \/ Construct
    \/ FirstCheck
    \/ AcquireLock
    \/ SecondCheck
    \/ Create
    \/ Initialize
    \/ ReleaseLock
    \/ ReturnInstance

SingletonSpec == SingletonInit /\ [][SingletonNext]_vars

(* every object a call has returned so far *)
Results ==
    UNION {{thread[t].got[i].obj : i \in DOMAIN thread[t].got} : t \in Threads}

(* the same, in the state an action leads to *)
ResultsNext ==
    UNION {{thread'[t].got[i].obj : i \in DOMAIN thread'[t].got} : t \in Threads}

(* C27: under every interleaving of the threads' calls at most one object *)
(* is ever created, _instance is never reassigned once it is set, and     *)
(* every call returns that one object.                                    *)
C27_SingleInstance ==
    [][/\ Len(heap') <= 1
       /\ (instance # None => instance' = instance)
       /\ None \notin ResultsNext
       /\ ResultsNext \subseteq {instance'}]_vars

(* a thread that saw None outside the lock reaches the test under the *)
(* lock after another thread has created and returned the instance    *)
C27_Witness ==
    \E t \in Threads, u \in Threads :
        /\ t # u
        /\ thread[t].pc = "check2"
        /\ thread[t].calls = 1
        /\ instance # None
        /\ Len(heap) = 1
        /\ thread[u].got # <<>>

(* C28: no call returns the instance before initialize() has set its *)
(* value attribute.                                                  *)
C28_ReturnedInitialized ==
    \A t \in Threads : \A i \in DOMAIN thread[t].got :
        thread[t].got[i].value # Unset

====
